---- MODULE Spec2Model ----
(***************************************************************************)
(* Model of the symbl-go-sdk REST client (package symbl, pkg/client):      *)
(* NewWithCreds (authentication) and Client.Do (the request dispatcher     *)
(* that re-authenticates on 401 and retries a bounded number of times).    *)
(***************************************************************************)
EXTENDS Integers, Sequences, FiniteSets, TLC

\* ------------------------------------------------------------------ bounds
\* number of Client.Do calls made one after the other on the client
MaxCalls == 2

\* --------------------------------------------------------- program constants
defaultAuthType == "application"
defaultAttemptsToReauth == 3
defaultDelayBetweenReauth == 2
StatusUnauthorized == 401

\* ------------------------------------------------------------ input domains
\* access tokens the authentication endpoint can answer with ("" = empty)
Tokens == {"t1", "t2"}
\* non-2xx statuses the transport can turn into a *rest.StatusError
StatusCodes == {401, 500}
\* contexts a caller can pass to Do
Contexts == {"ctxA", "ctxB"}
\* credentials held by a constructed client (Type already defaulted)
StoredCreds ==
  { [Type |-> t, AppId |-> "id", AppSecret |-> "secret"] :
      t \in {defaultAuthType, "custom"} }

\* ------------------------------------------------------------- error values
\* An error value: kind "nil" is Go's nil error.  id tells apart two errors
\* of the same kind made by different calls (a StatusError is built fresh by
\* every failing call); the package-level sentinels have id 0.
Nil == [kind |-> "nil", code |-> 0, id |-> 0]
StatusErr(code, id) == [kind |-> "status", code |-> code, id |-> id]
TransportErr(id) == [kind |-> "transport", code |-> 0, id |-> id]
CtxErr(id) == [kind |-> "ctx", code |-> 0, id |-> id]
ErrAuthFailure == [kind |-> "authfailure", code |-> 0, id |-> 0]
ErrValidation == [kind |-> "validation", code |-> 0, id |-> 0]
ErrInvalidInput == [kind |-> "invalidinput", code |-> 0, id |-> 0]

\* err.(*rest.StatusError) succeeds
IsStatusError(e) == e.kind = "status"

\* What one rest.Client.Do(ctx, req, &out) can return: nil on 2xx, a
\* StatusError on a non-2xx answer, another error on a network failure, and
\* the context's error when ctx is cancelled.
TransportResults(cancelled, id) ==
  {Nil} \cup {StatusErr(c, id) : c \in StatusCodes} \cup {TransportErr(id)}
        \cup (IF cancelled THEN {CtxErr(id)} ELSE {})

\* ------------------------------------------------------- 64-bit arithmetic
\* A Go int, int64 or time.Duration is a two's complement number of Width
\* bytes, written as the sequence of its bytes, lowest first.
Width == 8
\* the bytes of v, w of them (v \div 256 rounds down, so -1 is all 255)
RECURSIVE Bytes(_, _)
Bytes(v, w) == IF w = 0 THEN <<>> ELSE <<v % 256>> \o Bytes(v \div 256, w - 1)
Int64(v) == Bytes(v, Width)
\* b * m + carry, kept to the width of b (the overflow is dropped)
RECURSIVE MulBytes(_, _, _)
MulBytes(b, m, carry) ==
  IF b = <<>> THEN <<>>
  ELSE LET v == Head(b) * m + carry
       IN  <<v % 256>> \o MulBytes(Tail(b), m, v \div 256)
\* the same number written with w bytes, w >= Len(b) (sign extension)
SignExtend(b, w) ==
  [k \in 1..w |-> IF k <= Len(b) THEN b[k]
                  ELSE IF b[Len(b)] >= 128 THEN 255 ELSE 0]
\* b * time.Second, time.Second being 1000 * 1000 * 1000 nanoseconds
TimesSecond(b) == MulBytes(MulBytes(MulBytes(b, 1000, 0), 1000, 0), 1000, 0)
\* time.Second * time.Duration(expiresIn): an int64 product, which wraps
SecondsToDuration(expiresIn) == TimesSecond(expiresIn)
\* the values of expiresIn the authentication endpoint answers with:
\* -1, 0, 60, and 9223372037, the smallest number of seconds that is more
\* nanoseconds than an int64 holds
BigExpiresIn == <<5, 125, 193, 37, 2, 0, 0, 0>>
ExpiresIns == {Int64(0 - 1), Int64(0), Int64(60), BigExpiresIn}

\* What the authentication endpoint can answer to the one POST of
\* NewWithCreds: an error of the transport, or a decoded authResp.
AuthAnswers(cancelled, id) ==
  { [err |-> e, AccessToken |-> "", ExpiresIn |-> Int64(0)] :
      e \in TransportResults(cancelled, id) \ {Nil} }
  \cup
  { [err |-> Nil, AccessToken |-> t, ExpiresIn |-> Int64(60)] :
      t \in Tokens \cup {""} }

\* The same for the authentication that constructs the client, with every
\* value of expiresIn.
FirstAuthAnswers ==
  { [err |-> e, AccessToken |-> "", ExpiresIn |-> Int64(0)] :
      e \in TransportResults(FALSE, 1) \ {Nil} }
  \cup
  { [err |-> Nil, AccessToken |-> t, ExpiresIn |-> n] :
      t \in Tokens \cup {""}, n \in ExpiresIns }

NoCreds == [Type |-> "", AppId |-> "", AppSecret |-> ""]

\* v.Struct(creds): both fields tagged validate:"required" are non-empty
ValidCreds(creds) == creds.AppId # "" /\ creds.AppSecret # ""

\* NewWithCreds with the missing-field check applied to AppId only
NewWithCreds_ChecksAppIdOnly(creds, ans) ==
  LET c2 == IF creds.Type = "" THEN [creds EXCEPT !.Type = defaultAuthType]
                               ELSE creds
  IN  IF creds.AppId = ""
        THEN [err |-> ErrValidation, ok |-> FALSE, token |-> "",
              creds |-> creds, sent |-> creds, netCalls |-> 0,
              add |-> Int64(0)]
      ELSE IF ans.err # Nil
        THEN [err |-> ans.err, ok |-> FALSE, token |-> "",
              creds |-> c2, sent |-> c2, netCalls |-> 1, add |-> Int64(0)]
      ELSE IF ans.AccessToken = ""
        THEN [err |-> ErrAuthFailure, ok |-> FALSE, token |-> "",
              creds |-> c2, sent |-> c2, netCalls |-> 1, add |-> Int64(0)]
      ELSE [err |-> Nil, ok |-> TRUE, token |-> ans.AccessToken,
            creds |-> c2, sent |-> c2, netCalls |-> 1,
            add |-> SecondsToDuration(ans.ExpiresIn)]

\* NewWithCreds without the check of an empty access token
NewWithCreds_AcceptsEmptyToken(creds, ans) ==
  LET c2 == IF creds.Type = "" THEN [creds EXCEPT !.Type = defaultAuthType]
                               ELSE creds
  IN  IF ~ValidCreds(creds)
        THEN [err |-> ErrValidation, ok |-> FALSE, token |-> "",
              creds |-> creds, sent |-> creds, netCalls |-> 0,
              add |-> Int64(0)]
      ELSE IF ans.err # Nil
        THEN [err |-> ans.err, ok |-> FALSE, token |-> "",
              creds |-> c2, sent |-> c2, netCalls |-> 1, add |-> Int64(0)]
      ELSE [err |-> Nil, ok |-> TRUE, token |-> ans.AccessToken,
            creds |-> c2, sent |-> c2, netCalls |-> 1,
            add |-> SecondsToDuration(ans.ExpiresIn)]

\* NewWithCreds that answers a failed request with ErrAuthFailure
NewWithCreds_HidesRequestError(creds, ans) ==
  LET c2 == IF creds.Type = "" THEN [creds EXCEPT !.Type = defaultAuthType]
                               ELSE creds
  IN  IF ~ValidCreds(creds)
        THEN [err |-> ErrValidation, ok |-> FALSE, token |-> "",
              creds |-> creds, sent |-> creds, netCalls |-> 0,
              add |-> Int64(0)]
      ELSE IF ans.err # Nil \/ ans.AccessToken = ""
        THEN [err |-> ErrAuthFailure, ok |-> FALSE, token |-> "",
              creds |-> c2, sent |-> c2, netCalls |-> 1, add |-> Int64(0)]
      ELSE [err |-> Nil, ok |-> TRUE, token |-> ans.AccessToken,
            creds |-> c2, sent |-> c2, netCalls |-> 1,
            add |-> SecondsToDuration(ans.ExpiresIn)]

\* NewWithCreds(ctx, creds) given the answer `ans` of the authentication
\* endpoint.  Result: the error returned, whether a client is returned, the
\* token set on the new rest client, the credentials stored in the new
\* client, the credentials sent, the number of network calls made, and the
\* duration added to time.Now() for the token's ExpiresOn.
NewWithCreds(creds, ans) ==
  LET c2 == IF creds.Type = "" THEN [creds EXCEPT !.Type = defaultAuthType]
                               ELSE creds
  IN  IF ~ValidCreds(creds)
        THEN [err |-> ErrValidation, ok |-> FALSE, token |-> "",
              creds |-> creds, sent |-> creds, netCalls |-> 0,
              add |-> Int64(0)]
      ELSE IF ans.err # Nil
        THEN [err |-> ans.err, ok |-> FALSE, token |-> "",
              creds |-> c2, sent |-> c2, netCalls |-> 1, add |-> Int64(0)]
      ELSE IF ans.AccessToken = ""
        THEN [err |-> ErrAuthFailure, ok |-> FALSE, token |-> "",
              creds |-> c2, sent |-> c2, netCalls |-> 1, add |-> Int64(0)]
      ELSE [err |-> Nil, ok |-> TRUE, token |-> ans.AccessToken,
            creds |-> c2, sent |-> c2, netCalls |-> 1,
            add |-> SecondsToDuration(ans.ExpiresIn)]

\* The environment: a variable is unset or has a value, and os.Getenv
\* answers "" for an unset one.
Unset == "<unset>"
Getenv(env, name) == IF env[name] = Unset THEN "" ELSE env[name]
NoEnv == [APP_ID |-> Unset, APP_SECRET |-> Unset]
Envs == [APP_ID : {Unset, "", "envid"}, APP_SECRET : {Unset, "", "envsecret"}]
\* the credentials a caller can pass to NewWithCreds
InputCreds ==
  [Type : {"", defaultAuthType, "custom"}, AppId : {"", "id"},
   AppSecret : {"", "secret"}]

\* New without the check of APP_SECRET
New_SkipsSecretCheck(env, ans) ==
  IF Getenv(env, "APP_ID") = ""
    THEN [err |-> ErrInvalidInput, ok |-> FALSE, token |-> "",
          creds |-> NoCreds, sent |-> NoCreds, netCalls |-> 0,
          add |-> Int64(0)]
  ELSE NewWithCreds([Type |-> "", AppId |-> Getenv(env, "APP_ID"),
                     AppSecret |-> Getenv(env, "APP_SECRET")], ans)

\* New(ctx) in the environment env, given the answer of the endpoint
New(env, ans) ==
  IF Getenv(env, "APP_ID") = ""
    THEN [err |-> ErrInvalidInput, ok |-> FALSE, token |-> "",
          creds |-> NoCreds, sent |-> NoCreds, netCalls |-> 0,
          add |-> Int64(0)]
  ELSE IF Getenv(env, "APP_SECRET") = ""
    THEN [err |-> ErrInvalidInput, ok |-> FALSE, token |-> "",
          creds |-> NoCreds, sent |-> NoCreds, netCalls |-> 0,
          add |-> Int64(0)]
  ELSE NewWithCreds([Type |-> "", AppId |-> Getenv(env, "APP_ID"),
                     AppSecret |-> Getenv(env, "APP_SECRET")], ans)

\* ------------------------------------------------------ endpoint operations
\* (package async, bookmarks.go and summaryui.go)
\* A string whose characters matter (a uri) is the sequence of its characters.
\* strings.LastIndex(s, c): the index, from 0, of the last c in s, or -1
LastIndex(s, c) ==
  IF \E k \in 1..Len(s) : s[k] = c
    THEN (CHOOSE k \in 1..Len(s) :
            s[k] = c /\ \A j \in (k+1)..Len(s) : s[j] # c) - 1
    ELSE 0 - 1
\* strings.Index(s, c), the same for the first c
Index(s, c) ==
  IF \E k \in 1..Len(s) : s[k] = c
    THEN (CHOOSE k \in 1..Len(s) :
            s[k] = c /\ \A j \in 1..(k-1) : s[j] # c) - 1
    ELSE 0 - 1
\* s[:n] when c is at index n, else s
Before(s, c) == IF Index(s, c) < 0 THEN s ELSE SubSeq(s, 1, Index(s, c))
HexDigits == {"0", "1", "2", "3", "4", "a", "b", "c", "e"}
\* a '%' that is not followed by two hexadecimal digits
BadEscape(s) ==
  \E k \in 1..Len(s) :
    /\ s[k] = "%"
    /\ \/ k + 2 > Len(s)
       \/ s[k+1] \notin HexDigits
       \/ s[k+2] \notin HexDigits
\* url.Parse(uri): the fragment and the query are cut off, a scheme and an
\* authority ("s://host") are taken from the front, and the rest is the
\* path; a bad escape is an error.
UrlParse(uri) ==
  LET noFrag == Before(uri, "#")
      rest == Before(noFrag, "?")
      hasAuth == Len(rest) >= 4 /\ SubSeq(rest, 2, 4) = <<":", "/", "/">>
      afterAuth == IF hasAuth THEN SubSeq(rest, 5, Len(rest)) ELSE rest
      path == IF hasAuth
                THEN IF Index(afterAuth, "/") < 0 THEN <<>>
                     ELSE SubSeq(afterAuth, Index(afterAuth, "/") + 1,
                                 Len(afterAuth))
                ELSE rest
  IN  IF BadEscape(rest) THEN [ok |-> FALSE, Path |-> <<>>]
      ELSE [ok |-> TRUE, Path |-> path]

\* common.AudioTypeMP3, common.AudioTypeMpeg, common.AudioTypeWav
AudioTypeMP3 == <<"m", "p", "3">>
AudioTypeMpeg == <<"m", "p", "e", "g">>
AudioTypeWav == <<"w", "a", "v">>

ErrApiInvalidInput == [kind |-> "api-invalidinput", code |-> 0, id |-> 0]
ErrInvalidURIExtension == [kind |-> "api-uriextension", code |-> 0, id |-> 0]
ErrUrlParse == [kind |-> "urlparse", code |-> 0, id |-> 0]

\* the uris a caller passes to GetSummaryUI
Uris ==
  { <<>>,
    <<"/", "a">>,
    <<"/", "a", ".", "m", "p", "3">>,
    <<"/", "a", ".", "m", "p", "e", "g">>,
    <<"/", "a", ".", "w", "a", "v">>,
    <<"/", "a", ".", "m", "p", "4">>,
    <<"/", "a", ".", "w", "a", "v", "?", "b", ".", "m", "p", "4">>,
    <<"h", ":", "/", "/", "a", ".", "b", "/", "c">>,
    <<"/", "a", ".", "b", "/", "c">>,
    <<"/", "a", "%", "z", ".", "w", "a", "v">> }

\* GetSummaryUI up to the call of the operation it chooses: the error it
\* returns itself, or the operation it calls.  In the switch the cases of
\* mp3 and mpeg have no statements, so only wav reaches the audio request.
GetSummaryUI(conversationId, uri) ==
  IF conversationId = "" THEN [err |-> ErrApiInvalidInput, target |-> "none"]
  ELSE IF Len(uri) = 0 THEN [err |-> Nil, target |-> "GetTextSummaryUI"]
  ELSE LET u == UrlParse(uri)
           pos == LastIndex(u.Path, ".")
           extension == SubSeq(u.Path, pos + 2, Len(u.Path))
       IN  IF ~u.ok THEN [err |-> ErrUrlParse, target |-> "none"]
           ELSE IF pos = 0 - 1
             THEN [err |-> ErrInvalidURIExtension, target |-> "none"]
           ELSE CASE extension = AudioTypeMP3 ->
                       [err |-> Nil, target |-> "GetVideoSummaryUI"]
                  [] extension = AudioTypeMpeg ->
                       [err |-> Nil, target |-> "GetVideoSummaryUI"]
                  [] extension = AudioTypeWav ->
                       [err |-> Nil, target |-> "GetAudioSummaryUI"]
                  [] OTHER -> [err |-> Nil, target |-> "GetVideoSummaryUI"]

\* the operations that take a bookmarkId, and those that take a request
BookmarkIdOps ==
  {"GetBookmarkById", "UpdateBookmark", "DeleteBookmark",
   "GetSummaryOfBookmark"}
RequestOps == {"CreateBookmark", "UpdateBookmark"}
DirectOps ==
  {"GetBookmarks", "GetBookmarkById", "CreateBookmark", "UpdateBookmark",
   "DeleteBookmark", "GetSummaryOfBookmark", "GetSummaryOfBookmarks",
   "GetTextSummaryUI", "GetAudioSummaryUI", "GetVideoSummaryUI"}

\* the calls of endpoint operations: an argument an operation does not take
\* has its default
ApiCalls ==
  { [name |-> n, conversationId |-> c, bookmarkId |-> b, requestOk |-> r,
     uri |-> <<>>, target |-> n] :
      n \in DirectOps, c \in {"", "conv"}, b \in {"", "bm"}, r \in BOOLEAN }
  \cup
  { [name |-> "GetSummaryUI", conversationId |-> c, bookmarkId |-> "",
     requestOk |-> TRUE, uri |-> u,
     target |-> GetSummaryUI(c, u).target] :
      c \in {"", "conv"}, u \in Uris }

\* ApiChecks that leaves out the check of the bookmarkId
ApiChecks_SkipsBookmarkId(o) ==
  IF o.name = "GetSummaryUI" /\ GetSummaryUI(o.conversationId, o.uri).err # Nil
    THEN GetSummaryUI(o.conversationId, o.uri).err
  ELSE IF o.target \in RequestOps /\ ~o.requestOk THEN ErrValidation
  ELSE IF o.conversationId = "" THEN ErrApiInvalidInput
  ELSE Nil

\* The checks an operation makes before it builds its request: the error it
\* returns without calling c.Client.Do, or nil.  CreateBookmark and
\* UpdateBookmark validate the request (v.Struct) first, every operation
\* checks conversationId, and four check bookmarkId.
ApiChecks(o) ==
  IF o.name = "GetSummaryUI" /\ GetSummaryUI(o.conversationId, o.uri).err # Nil
    THEN GetSummaryUI(o.conversationId, o.uri).err
  ELSE IF o.target \in RequestOps /\ ~o.requestOk THEN ErrValidation
  ELSE IF o.conversationId = "" THEN ErrApiInvalidInput
  ELSE IF o.target \in BookmarkIdOps /\ o.bookmarkId = ""
    THEN ErrApiInvalidInput
  ELSE Nil

\* err.(*symbl.StatusError) succeeds: symbl.StatusError is the type
\* declared next to Client, which wraps a *rest.StatusError; Do returns the
\* errors of rest.Client.Do and of NewWithCreds as they are, none of which
\* has this type
IsSymblStatusError(e) == e.kind = "symbl-status"
StatusOK == 200

\* What an operation returns once c.Client.Do has returned e:
\* if e, ok := err.(*symbl.StatusError); ok { if code != 200 { return nil,
\* err } }; return &result, nil
ApiResult(o, e) ==
  IF IsSymblStatusError(e) /\ e.code # StatusOK
    THEN [result |-> FALSE, err |-> e, doCalls |-> 1]
    ELSE [result |-> o.target # "DeleteBookmark", err |-> Nil, doCalls |-> 1]

\* -------------------------------------------------------------------- state
VARIABLES
  creds,      \* c.creds: the credentials stored in the client
  cur,        \* c.Client: the handle of the rest client the client holds
  token,      \* the bearer token set on the rest client c.Client
  nHandles,   \* number of rest clients made so far by rest.New()
  pc,         \* position of the running Do call ("idle" when none runs)
  i,          \* loop counter of Do
  err,        \* local err of Do
  ret,        \* value returned by the Do call
  ctx,        \* the context passed to the Do call
  cancelled,  \* whether that context has been cancelled
  newClient,  \* newClient of Do: the client returned by NewWithCreds
  slept,      \* seconds the Do call has spent in time.Sleep
  log,        \* what the Do call has done so far, in order
  cancelAt,   \* where the Do call was when its context was cancelled
  calls,      \* number of calls begun (the constructor's, and those of Do)
  now,        \* the clock (time.Now()), in seconds
  expires,    \* ExpiresOn of the token set on the rest client c.Client
  lastOk,     \* the latest successful answer of the authentication endpoint
  lastSent,   \* the credentials posted by the latest authentication
  lastAns,    \* the latest answer of the authentication endpoint
  netCalls,   \* network calls made by the latest NewWithCreds
  input,      \* what the constructor was called with
  ctorErr,    \* the error the constructor returned
  op,         \* the endpoint operation that is running
  opRet,      \* what the latest endpoint operation returned
  pcB,        \* position of a second, concurrent Do call on the same client
  bSeen       \* the rest client and token the second call read for its request

vars == <<creds, cur, token, nHandles, pc, i, err, ret, ctx, cancelled,
          newClient, slept, log, cancelAt, calls, now, expires, lastOk,
          lastSent, lastAns, netCalls, input, ctorErr, op, opRet, pcB,
          bSeen>>

\* the state of the authentication, of the construction, of the endpoint
\* operation and of the second caller
authVars == <<lastOk, lastSent, lastAns, netCalls>>
ctorVars == <<input, ctorErr>>
opVars == <<op, opRet>>
bVars == <<pcB, bSeen>>

\* ExpiresOn: time.Now() at the authentication plus a Duration
NoExpiry == [at |-> 0, add |-> Int64(0)]
NoClient == [h |-> 0, token |-> "", expires |-> NoExpiry]
NoAnswer == [AccessToken |-> "", ExpiresIn |-> Int64(0), at |-> 0]
NoAns == [err |-> Nil, AccessToken |-> "", ExpiresIn |-> Int64(0)]
NoInput == [via |-> "none", creds |-> NoCreds, env |-> NoEnv]
NoOp == [name |-> "none", conversationId |-> "", bookmarkId |-> "",
         requestOk |-> TRUE, uri |-> <<>>, target |-> "none"]
NoRet == [result |-> FALSE, err |-> Nil, doCalls |-> 0]

\* one entry of log
Event(ev, h, tok, c, res) ==
  [ev |-> ev, h |-> h, tok |-> tok, ctx |-> c, res |-> res]

Init ==
  /\ creds \in StoredCreds
  /\ cur = 1
  /\ token \in Tokens
  /\ nHandles = 1
  /\ pc = "idle"
  /\ i = 0
  /\ err = Nil
  /\ ret = Nil
  /\ ctx = "ctxA"
  /\ cancelled = FALSE
  /\ newClient = NoClient
  /\ slept = 0
  /\ log = <<>>
  /\ cancelAt = "none"
  /\ calls = 0
  /\ now = 0
  /\ expires = [at |-> 0, add |-> SecondsToDuration(Int64(60))]
  /\ lastOk = [AccessToken |-> token, ExpiresIn |-> Int64(60), at |-> 0]
  /\ lastSent = creds
  /\ lastAns = [err |-> Nil, AccessToken |-> token, ExpiresIn |-> Int64(60)]
  /\ netCalls = 1
  /\ input = [via |-> "NewWithCreds", creds |-> creds, env |-> NoEnv]
  /\ ctorErr = Nil
  /\ op = NoOp
  /\ opRet = NoRet
  /\ pcB = "idle"
  /\ bSeen = NoClient

\* times at which the constructor can be called
StartTimes == {0, 7}

\* before the construction: there is no client
InitNew ==
  /\ creds = NoCreds
  /\ cur = 0
  /\ token = ""
  /\ nHandles = 0
  /\ pc = "start"
  /\ i = 0
  /\ err = Nil
  /\ ret = Nil
  /\ ctx = "ctxA"
  /\ cancelled = FALSE
  /\ newClient = NoClient
  /\ slept = 0
  /\ log = <<>>
  /\ cancelAt = "none"
  /\ calls = 0
  /\ now \in StartTimes
  /\ expires = NoExpiry
  /\ lastOk = NoAnswer
  /\ lastSent = NoCreds
  /\ lastAns = NoAns
  /\ netCalls = 0
  /\ input = NoInput
  /\ ctorErr = Nil
  /\ op = NoOp
  /\ opRet = NoRet
  /\ pcB = "idle"
  /\ bSeen = NoClient

\* ------------------------------------------------------------------ actions
\* what a constructor call that returned r leaves behind: on success the
\* client c with its rest client, token and credentials, else no client
Constructed(r, ans) ==
  /\ calls' = calls + 1
  /\ netCalls' = r.netCalls
  /\ nHandles' = r.netCalls
  /\ lastSent' = IF r.netCalls > 0 THEN r.sent ELSE lastSent
  /\ lastAns' = IF r.netCalls > 0 THEN ans ELSE lastAns
  /\ ctorErr' = r.err
  /\ IF r.ok
       THEN /\ creds' = r.creds
            /\ cur' = 1
            /\ token' = r.token
            /\ expires' = [at |-> now, add |-> r.add]
            /\ lastOk' = [AccessToken |-> ans.AccessToken,
                          ExpiresIn |-> ans.ExpiresIn, at |-> now]
            /\ pc' = "idle"
       ELSE /\ pc' = "failed"
            /\ UNCHANGED <<creds, cur, token, expires, lastOk>>
  /\ UNCHANGED <<i, err, ret, ctx, cancelled, newClient, slept, log,
                 cancelAt, now, opVars, bVars>>

\* a caller calls NewWithCreds(ctx, c)
CallNewWithCreds ==
  /\ pc = "start"
  /\ \E c \in InputCreds, ans \in FirstAuthAnswers :
       /\ input' = [via |-> "NewWithCreds", creds |-> c, env |-> NoEnv]
       /\ Constructed(NewWithCreds(c, ans), ans)

\* a caller calls New(ctx)
CallNew ==
  /\ pc = "start"
  /\ \E env \in Envs, ans \in FirstAuthAnswers :
       /\ input' = [via |-> "New", creds |-> NoCreds, env |-> env]
       /\ Constructed(New(env, ans), ans)

\* DoEnter with the loop begun at 0 instead of 1
DoEnter_FromZero ==
  /\ pc \in {"idle", "api"}
  /\ calls < MaxCalls
  /\ \E c \in Contexts : ctx' = c
  /\ cancelled' = FALSE
  /\ calls' = calls + 1
  /\ i' = 0
  /\ err' = Nil
  /\ ret' = Nil
  /\ newClient' = NoClient
  /\ slept' = 0
  /\ log' = <<>>
  /\ cancelAt' = "none"
  /\ pc' = "loop"
  /\ op' = IF pc = "api" THEN op ELSE NoOp
  /\ UNCHANGED <<creds, cur, token, nHandles>>
  /\ UNCHANGED <<now, expires, authVars, ctorVars, opRet, bVars>>

\* a caller calls c.Do(ctx, req, resBody): var err error; i := 1
DoEnter ==
  /\ pc \in {"idle", "api"}
  /\ calls < MaxCalls
  /\ \E c \in Contexts : ctx' = c
  /\ cancelled' = FALSE
  /\ calls' = calls + 1
  /\ i' = 1
  /\ err' = Nil
  /\ ret' = Nil
  /\ newClient' = NoClient
  /\ slept' = 0
  /\ log' = <<>>
  /\ cancelAt' = "none"
  /\ pc' = "loop"
  /\ op' = IF pc = "api" THEN op ELSE NoOp
  /\ UNCHANGED <<creds, cur, token, nHandles>>
  /\ UNCHANGED <<now, expires, authVars, ctorVars, opRet, bVars>>

\* LoopTest that returns nil when the loop runs out
LoopTest_ReturnsNil ==
  /\ pc = "loop"
  /\ IF i <= defaultAttemptsToReauth
       THEN /\ pc' = IF i > 1 THEN "sleep" ELSE "request"
            /\ ret' = ret
       ELSE /\ pc' = "done"
            /\ ret' = Nil
  /\ UNCHANGED <<creds, cur, token, nHandles, i, err, ctx, cancelled,
                 newClient, slept, log, cancelAt, calls>>
  /\ UNCHANGED <<now, expires, authVars, ctorVars, opVars, bVars>>

\* LoopTest that sleeps before every attempt, the first included
LoopTest_SleepsFirst ==
  /\ pc = "loop"
  /\ IF i <= defaultAttemptsToReauth
       THEN /\ pc' = IF i >= 1 THEN "sleep" ELSE "request"
            /\ ret' = ret
       ELSE /\ pc' = "done"
            /\ ret' = err
  /\ UNCHANGED <<creds, cur, token, nHandles, i, err, ctx, cancelled,
                 newClient, slept, log, cancelAt, calls>>
  /\ UNCHANGED <<now, expires, authVars, ctorVars, opVars, bVars>>

\* LoopTest of a loop without its bound: for i := 1; ; i++
LoopTest_NoBound ==
  /\ pc = "loop"
  /\ pc' = IF i > 1 THEN "sleep" ELSE "request"
  /\ ret' = ret
  /\ UNCHANGED <<creds, cur, token, nHandles, i, err, ctx, cancelled,
                 newClient, slept, log, cancelAt, calls>>
  /\ UNCHANGED <<now, expires, authVars, ctorVars, opVars, bVars>>

\* the loop test i <= defaultAttemptsToReauth, the test i > 1, and the
\* return err after the loop
LoopTest ==
  /\ pc = "loop"
  /\ IF i <= defaultAttemptsToReauth
       THEN /\ pc' = IF i > 1 THEN "sleep" ELSE "request"
            /\ ret' = ret
       ELSE /\ pc' = "done"
            /\ ret' = err
  /\ UNCHANGED <<creds, cur, token, nHandles, i, err, ctx, cancelled,
                 newClient, slept, log, cancelAt, calls>>
  /\ UNCHANGED <<now, expires, authVars, ctorVars, opVars, bVars>>

\* Sleep that gives up with the context's error when the context is cancelled
Sleep_CancelAware ==
  /\ pc = "sleep"
  /\ IF cancelled
       THEN /\ pc' = "done"
            /\ ret' = CtxErr(0)
            /\ UNCHANGED <<slept, log, now>>
       ELSE /\ slept' = slept + defaultDelayBetweenReauth
            /\ now' = now + defaultDelayBetweenReauth
            /\ log' = Append(log, Event("sleep", 0, "", "", Nil))
            /\ pc' = "request"
            /\ ret' = ret
  /\ UNCHANGED <<creds, cur, token, nHandles, i, err, ctx, cancelled,
                 newClient, cancelAt, calls>>
  /\ UNCHANGED <<expires, authVars, ctorVars, opVars, bVars>>

\* time.Sleep(time.Second * time.Duration(defaultDelayBetweenReauth)): it
\* takes no context and returns only when the time has passed
Sleep ==
  /\ pc = "sleep"
  /\ slept' = slept + defaultDelayBetweenReauth
  /\ now' = now + defaultDelayBetweenReauth
  /\ log' = Append(log, Event("sleep", 0, "", "", Nil))
  /\ pc' = "request"
  /\ UNCHANGED <<creds, cur, token, nHandles, i, err, ret, ctx, cancelled,
                 newClient, cancelAt, calls>>
  /\ UNCHANGED <<expires, authVars, ctorVars, opVars, bVars>>

\* err = c.Client.Do(ctx, req, resBody)
Request ==
  /\ pc = "request"
  /\ \E r \in TransportResults(cancelled, Len(log) + 1) :
       /\ err' = r
       /\ log' = Append(log, Event("req", cur, token, ctx, r))
  /\ pc' = "classify"
  /\ UNCHANGED <<creds, cur, token, nHandles, i, ret, ctx, cancelled,
                 newClient, slept, cancelAt, calls>>
  /\ UNCHANGED <<now, expires, authVars, ctorVars, opVars, bVars>>

\* Classify that retries an error that is not a StatusError
Classify_RetriesOtherErrors ==
  /\ pc = "classify"
  /\ IF IsStatusError(err)
       THEN IF err.code = StatusUnauthorized
              THEN /\ pc' = "reauth"
                   /\ UNCHANGED <<i, ret>>
              ELSE /\ pc' = "loop"
                   /\ i' = i + 1
                   /\ ret' = ret
       ELSE IF err # Nil
              THEN /\ pc' = "loop"
                   /\ i' = i + 1
                   /\ ret' = ret
              ELSE /\ pc' = "done"
                   /\ ret' = err
                   /\ i' = i
  /\ UNCHANGED <<creds, cur, token, nHandles, err, ctx, cancelled,
                 newClient, slept, log, cancelAt, calls>>
  /\ UNCHANGED <<now, expires, authVars, ctorVars, opVars, bVars>>

\* Classify that re-authenticates on every StatusError
Classify_ReauthOnAnyStatus ==
  /\ pc = "classify"
  /\ IF IsStatusError(err)
       THEN /\ pc' = "reauth"
            /\ UNCHANGED <<i, ret>>
       ELSE /\ pc' = "done"
            /\ ret' = err
            /\ i' = i
  /\ UNCHANGED <<creds, cur, token, nHandles, err, ctx, cancelled,
                 newClient, slept, log, cancelAt, calls>>
  /\ UNCHANGED <<now, expires, authVars, ctorVars, opVars, bVars>>

\* Classify without the else branch: only the end of the loop returns
Classify_NoElse ==
  /\ pc = "classify"
  /\ IF IsStatusError(err) /\ err.code = StatusUnauthorized
       THEN /\ pc' = "reauth"
            /\ UNCHANGED <<i, ret>>
       ELSE /\ pc' = "loop"
            /\ i' = i + 1
            /\ ret' = ret
  /\ UNCHANGED <<creds, cur, token, nHandles, err, ctx, cancelled,
                 newClient, slept, log, cancelAt, calls>>
  /\ UNCHANGED <<now, expires, authVars, ctorVars, opVars, bVars>>

\* if e, ok := err.(*rest.StatusError); ok { if 401 {...} } else { return err }
Classify ==
  /\ pc = "classify"
  /\ IF IsStatusError(err)
       THEN IF err.code = StatusUnauthorized
              THEN /\ pc' = "reauth"
                   /\ UNCHANGED <<i, ret>>
              ELSE /\ pc' = "loop"
                   /\ i' = i + 1
                   /\ ret' = ret
       ELSE /\ pc' = "done"
            /\ ret' = err
            /\ i' = i
  /\ UNCHANGED <<creds, cur, token, nHandles, err, ctx, cancelled,
                 newClient, slept, log, cancelAt, calls>>
  /\ UNCHANGED <<now, expires, authVars, ctorVars, opVars, bVars>>

\* Reauth that returns err (the 401) instead of reauthErr
Reauth_ReturnsRequestError ==
  /\ pc = "reauth"
  /\ \E ans \in AuthAnswers(cancelled, Len(log) + 1) :
       LET r == NewWithCreds(creds, ans) IN
         /\ nHandles' = nHandles + r.netCalls
         /\ netCalls' = r.netCalls
         /\ lastSent' = IF r.netCalls > 0 THEN r.sent ELSE lastSent
         /\ lastAns' = IF r.netCalls > 0 THEN ans ELSE lastAns
         /\ lastOk' = IF r.ok THEN [AccessToken |-> ans.AccessToken,
                                   ExpiresIn |-> ans.ExpiresIn, at |-> now]
                             ELSE lastOk
         /\ log' = Append(log, Event("auth", nHandles + r.netCalls,
                                     r.token, ctx, r.err))
         /\ IF r.err # Nil
              THEN /\ ret' = err
                   /\ pc' = "done"
                   /\ newClient' = NoClient
              ELSE /\ ret' = ret
                   /\ pc' = "install"
                   /\ newClient' = [h |-> nHandles + 1, token |-> r.token,
                                    expires |-> [at |-> now, add |-> r.add]]
  /\ UNCHANGED <<creds, cur, token, i, err, ctx, cancelled, slept, cancelAt,
                 calls>>
  /\ UNCHANGED <<now, expires, ctorVars, opVars, bVars>>

\* Reauth that passes only AppId and AppSecret on, as New does
Reauth_SendsIdAndSecretOnly ==
  /\ pc = "reauth"
  /\ \E ans \in AuthAnswers(cancelled, Len(log) + 1) :
       LET r == NewWithCreds([creds EXCEPT !.Type = ""], ans) IN
         /\ nHandles' = nHandles + r.netCalls
         /\ netCalls' = r.netCalls
         /\ lastSent' = IF r.netCalls > 0 THEN r.sent ELSE lastSent
         /\ lastAns' = IF r.netCalls > 0 THEN ans ELSE lastAns
         /\ lastOk' = IF r.ok THEN [AccessToken |-> ans.AccessToken,
                                   ExpiresIn |-> ans.ExpiresIn, at |-> now]
                             ELSE lastOk
         /\ log' = Append(log, Event("auth", nHandles + r.netCalls,
                                     r.token, ctx, r.err))
         /\ IF r.err # Nil
              THEN /\ ret' = r.err
                   /\ pc' = "done"
                   /\ newClient' = NoClient
              ELSE /\ ret' = ret
                   /\ pc' = "install"
                   /\ newClient' = [h |-> nHandles + 1, token |-> r.token,
                                    expires |-> [at |-> now, add |-> r.add]]
  /\ UNCHANGED <<creds, cur, token, i, err, ctx, cancelled, slept, cancelAt,
                 calls>>
  /\ UNCHANGED <<now, expires, ctorVars, opVars, bVars>>

\* Reauth that assigns c.Client before it tests reauthErr, so that a failed
\* re-authentication leaves the client without a session
Reauth_InstallsBeforeTest ==
  /\ pc = "reauth"
  /\ \E ans \in AuthAnswers(cancelled, Len(log) + 1) :
       LET r == NewWithCreds(creds, ans) IN
         /\ nHandles' = nHandles + r.netCalls
         /\ netCalls' = r.netCalls
         /\ lastSent' = IF r.netCalls > 0 THEN r.sent ELSE lastSent
         /\ lastAns' = IF r.netCalls > 0 THEN ans ELSE lastAns
         /\ lastOk' = IF r.ok THEN [AccessToken |-> ans.AccessToken,
                                   ExpiresIn |-> ans.ExpiresIn, at |-> now]
                             ELSE lastOk
         /\ log' = Append(log, Event("auth", nHandles + r.netCalls,
                                     r.token, ctx, r.err))
         /\ IF r.err # Nil
              THEN /\ ret' = r.err
                   /\ pc' = "done"
                   /\ newClient' = NoClient
                   /\ cur' = 0
                   /\ token' = ""
              ELSE /\ ret' = ret
                   /\ pc' = "install"
                   /\ newClient' = [h |-> nHandles + 1, token |-> r.token,
                                    expires |-> [at |-> now, add |-> r.add]]
                   /\ UNCHANGED <<cur, token>>
  /\ UNCHANGED <<creds, i, err, ctx, cancelled, slept, cancelAt,
                 calls>>
  /\ UNCHANGED <<now, expires, ctorVars, opVars, bVars>>

\* newClient, reauthErr := NewWithCreds(ctx, *c.creds);
\* if reauthErr != nil { return reauthErr }
Reauth ==
  /\ pc = "reauth"
  /\ \E ans \in AuthAnswers(cancelled, Len(log) + 1) :
       LET r == NewWithCreds(creds, ans) IN
         /\ nHandles' = nHandles + r.netCalls
         /\ netCalls' = r.netCalls
         /\ lastSent' = IF r.netCalls > 0 THEN r.sent ELSE lastSent
         /\ lastAns' = IF r.netCalls > 0 THEN ans ELSE lastAns
         /\ lastOk' = IF r.ok THEN [AccessToken |-> ans.AccessToken,
                                   ExpiresIn |-> ans.ExpiresIn, at |-> now]
                             ELSE lastOk
         /\ log' = Append(log, Event("auth", nHandles + r.netCalls,
                                     r.token, ctx, r.err))
         /\ IF r.err # Nil
              THEN /\ ret' = r.err
                   /\ pc' = "done"
                   /\ newClient' = NoClient
              ELSE /\ ret' = ret
                   /\ pc' = "install"
                   /\ newClient' = [h |-> nHandles + 1, token |-> r.token,
                                    expires |-> [at |-> now, add |-> r.add]]
  /\ UNCHANGED <<creds, cur, token, i, err, ctx, cancelled, slept, cancelAt,
                 calls>>
  /\ UNCHANGED <<now, expires, ctorVars, opVars, bVars>>

\* Install that forgets the assignment c.Client = newClient.Client
Install_KeepsOldClient ==
  /\ pc = "install"
  /\ log' = Append(log, Event("install", newClient.h, newClient.token, "", Nil))
  /\ i' = i + 1
  /\ pc' = "loop"
  /\ UNCHANGED <<creds, cur, token, nHandles, err, ret, ctx, cancelled,
                 newClient, slept, cancelAt, calls>>
  /\ UNCHANGED <<now, expires, authVars, ctorVars, opVars, bVars>>

\* Install that returns the 401 error once the new client is in place
Install_ThenReturn ==
  /\ pc = "install"
  /\ cur' = newClient.h
  /\ token' = newClient.token
  /\ expires' = newClient.expires
  /\ log' = Append(log, Event("install", newClient.h, newClient.token, "", Nil))
  /\ ret' = err
  /\ pc' = "done"
  /\ UNCHANGED <<creds, nHandles, i, err, ctx, cancelled, newClient,
                 slept, cancelAt, calls>>
  /\ UNCHANGED <<now, authVars, ctorVars, opVars, bVars>>

\* c.Client = newClient.Client, then i++
Install ==
  /\ pc = "install"
  /\ cur' = newClient.h
  /\ token' = newClient.token
  /\ expires' = newClient.expires
  /\ log' = Append(log, Event("install", newClient.h, newClient.token, "", Nil))
  /\ i' = i + 1
  /\ pc' = "loop"
  /\ UNCHANGED <<creds, nHandles, err, ret, ctx, cancelled, newClient,
                 slept, cancelAt, calls>>
  /\ UNCHANGED <<now, authVars, ctorVars, opVars, bVars>>

\* the caller (or a deadline) cancels the context while Do runs
Cancel ==
  /\ pc \notin {"idle", "done"}
  /\ ~cancelled
  /\ cancelled' = TRUE
  /\ cancelAt' = pc
  /\ UNCHANGED <<creds, cur, token, nHandles, pc, i, err, ret, ctx,
                 newClient, slept, log, calls>>
  /\ UNCHANGED <<now, expires, authVars, ctorVars, opVars, bVars>>

\* Do has returned ret to its caller (an endpoint operation, when one runs)
DoReturn ==
  /\ pc = "done"
  /\ pc' = IF op = NoOp THEN "idle" ELSE "apiret"
  /\ UNCHANGED <<creds, cur, token, nHandles, i, err, ret, ctx, cancelled,
                 newClient, slept, log, cancelAt, calls>>
  /\ UNCHANGED <<now, expires, authVars, ctorVars, opVars, bVars>>

Next ==
  \/ DoEnter
  \/ LoopTest
  \/ Sleep
  \/ Request
  \/ Classify
  \/ Reauth
  \/ Install
  \/ Cancel
  \/ DoReturn

Spec == Init /\ [][Next]_vars

\* the call of NewWithCreds inside Do returns: the step that leaves "reauth",
\* which in Next only Reauth takes, and which Reauth can take whenever
\* pc = "reauth" (there is always an answer)
ReauthReturns == pc = "reauth" /\ pc' \in {"done", "install"}

\* one constructed client: whether Do returns depends neither on the
\* credentials' Type nor on which token the client starts with
InitLive ==
  /\ Init
  /\ creds.Type = defaultAuthType
  /\ token = "t1"

\* Spec with the scheduling that makes Do run: a goroutine that is inside Do
\* takes its next step, and every Transport.Do call, every authentication
\* call and every time.Sleep returns.  Nothing obliges a caller to call Do
\* or to cancel.
SpecLive ==
  /\ InitLive
  /\ [][Next]_vars
  /\ WF_vars(LoopTest)
  /\ WF_vars(Sleep)
  /\ WF_vars(Request)
  /\ WF_vars(Classify)
  /\ WF_pc(ReauthReturns)
  /\ WF_vars(Install)

\* A second Do call runs on the same client at the same time.  Nothing in
\* Client or in Do orders its steps with the steps of the first call.
\* It begins, ...
B_Enter ==
  /\ pcB = "idle"
  /\ pc \notin {"idle", "done"}
  /\ calls < MaxCalls
  /\ calls' = calls + 1
  /\ pcB' = "request"
  /\ UNCHANGED <<creds, cur, token, nHandles, pc, i, err, ret, ctx, cancelled,
                 newClient, slept, log, cancelAt>>
  /\ UNCHANGED <<now, expires, authVars, ctorVars, opVars, bSeen>>

\* ... its request c.Client.Do(ctx, req, resBody) reads the field
\* c.Client, ...
B_Load ==
  /\ pcB = "request"
  /\ pcB' = "loaded"
  /\ bSeen' = [h |-> cur, token |-> token, expires |-> expires]
  /\ UNCHANGED <<creds, cur, token, nHandles, pc, i, err, ret, ctx, cancelled,
                 newClient, slept, log, cancelAt, calls>>
  /\ UNCHANGED <<now, expires, authVars, ctorVars, opVars>>

\* ... and the rest client it has read sends the request with its token;
\* the request succeeds and the second call returns
B_Send ==
  /\ pcB = "loaded"
  /\ pcB' = "idle"
  /\ bSeen' = NoClient
  /\ UNCHANGED <<creds, cur, token, nHandles, pc, i, err, ret, ctx, cancelled,
                 newClient, slept, log, cancelAt, calls>>
  /\ UNCHANGED <<now, expires, authVars, ctorVars, opVars>>

NextConc ==
  \/ DoEnter
  \/ LoopTest
  \/ Sleep
  \/ Request
  \/ Classify
  \/ Reauth
  \/ Install
  \/ Cancel
  \/ DoReturn
  \/ B_Enter
  \/ B_Load
  \/ B_Send

SpecConc == Init /\ [][NextConc]_vars

\* a caller calls an endpoint operation, which makes its checks and, when
\* they pass, builds its request
ApiEnter ==
  /\ pc = "ready"
  /\ calls + 2 <= MaxCalls
  /\ calls' = calls + 1
  /\ \E o \in ApiCalls :
       /\ op' = o
       /\ IF ApiChecks(o) # Nil
            THEN /\ opRet' = [result |-> FALSE, err |-> ApiChecks(o),
                              doCalls |-> 0]
                 /\ pc' = "ready"
            ELSE /\ opRet' = NoRet
                 /\ pc' = "api"
  /\ UNCHANGED <<creds, cur, token, nHandles, i, err, ret, ctx, cancelled,
                 newClient, slept, log, cancelAt>>
  /\ UNCHANGED <<now, expires, authVars, ctorVars, bVars>>

\* the operation returns what it makes of the error of c.Client.Do
ApiReturn ==
  /\ pc = "apiret"
  /\ opRet' = ApiResult(op, ret)
  /\ pc' = "ready"
  /\ UNCHANGED <<creds, cur, token, nHandles, i, err, ret, ctx, cancelled,
                 newClient, slept, log, cancelAt, calls>>
  /\ UNCHANGED <<now, expires, authVars, ctorVars, op, bVars>>

\* a constructed client whose caller uses the endpoint operations
InitApi ==
  /\ creds \in StoredCreds
  /\ cur = 1
  /\ token \in Tokens
  /\ nHandles = 1
  /\ pc = "ready"
  /\ i = 0
  /\ err = Nil
  /\ ret = Nil
  /\ ctx = "ctxA"
  /\ cancelled = FALSE
  /\ newClient = NoClient
  /\ slept = 0
  /\ log = <<>>
  /\ cancelAt = "none"
  /\ calls = 0
  /\ now = 0
  /\ expires = [at |-> 0, add |-> SecondsToDuration(Int64(60))]
  /\ lastOk = [AccessToken |-> token, ExpiresIn |-> Int64(60), at |-> 0]
  /\ lastSent = creds
  /\ lastAns = [err |-> Nil, AccessToken |-> token, ExpiresIn |-> Int64(60)]
  /\ netCalls = 1
  /\ input = [via |-> "NewWithCreds", creds |-> creds, env |-> NoEnv]
  /\ ctorErr = Nil
  /\ op = NoOp
  /\ opRet = NoRet
  /\ pcB = "idle"
  /\ bSeen = NoClient

NextApi ==
  \/ ApiEnter
  \/ DoEnter
  \/ LoopTest
  \/ Sleep
  \/ Request
  \/ Classify
  \/ Reauth
  \/ Install
  \/ Cancel
  \/ DoReturn
  \/ ApiReturn

SpecApi == InitApi /\ [][NextApi]_vars

\* the client from its construction on
NextNew ==
  \/ CallNewWithCreds
  \/ CallNew
  \/ DoEnter
  \/ LoopTest
  \/ Sleep
  \/ Request
  \/ Classify
  \/ Reauth
  \/ Install
  \/ Cancel
  \/ DoReturn

SpecNew == InitNew /\ [][NextNew]_vars

\* ------------------------------------------------- reading the log of a call
\* the Transport.Do calls, the authentications and the sleeps of the call
Reqs == SelectSeq(log, LAMBDA e : e.ev = "req")
Auths == SelectSeq(log, LAMBDA e : e.ev = "auth")
Sleeps == SelectSeq(log, LAMBDA e : e.ev = "sleep")
\* number of Transport.Do calls among the first k entries of the log
ReqsUpTo(k) == Len(SelectSeq(SubSeq(log, 1, k), LAMBDA e : e.ev = "req"))
\* the Do call has returned
Returned == pc = "done" \/ (pc = "idle" /\ calls > 0)
Is401(e) == IsStatusError(e) /\ e.code = 401
IsOtherStatus(e) == IsStatusError(e) /\ e.code # 401

\* ------------------------------------------------------------------- claims

\* C1: when the first Transport.Do returns a 401 StatusError and the
\* re-authentication succeeds, the new token is installed before the second
\* Transport.Do, the second Transport.Do is made by the new rest client with
\* the new token, and if it succeeds Do returns nil after exactly 2 requests
\* and exactly 1 authentication.
C1_RetryUsesNewToken ==
  (Len(log) >= 2 /\ log[1].ev = "req" /\ Is401(log[1].res)
     /\ log[2].ev = "auth" /\ log[2].res = Nil)
  => /\ Len(log) >= 3 =>
          log[3] = Event("install", log[2].h, log[2].tok, "", Nil)
     /\ Len(log) >= 4 => log[4].ev = "sleep"
     /\ Len(log) >= 5 =>
          /\ log[5].ev = "req"
          /\ log[5].h = log[2].h
          /\ log[5].tok = log[2].tok
          /\ log[5].h # log[1].h
     /\ (Len(log) >= 5 /\ log[5].res = Nil) =>
          /\ Len(log) = 5
          /\ Len(Reqs) = 2
          /\ Len(Auths) = 1
          /\ pc \in {"classify", "done", "idle"}
          /\ Returned => ret = Nil

C1_Witness ==
  /\ pc = "done"
  /\ Len(log) = 5
  /\ Is401(log[1].res)
  /\ log[2].ev = "auth" /\ log[2].res = Nil
  /\ log[5].ev = "req" /\ log[5].res = Nil
  /\ log[5].tok # log[1].tok
  /\ ret = Nil

\* C2: a single call of Do issues at most 3 Transport.Do requests, whatever
\* the outcomes of the requests and of the re-authentications.
C2_AtMostThreeRequests == Len(Reqs) <= 3

C2_Witness ==
  /\ Returned
  /\ Len(Reqs) = 3
  /\ Len(Auths) = 3
  /\ Is401(ret)

\* C3: a failed re-authentication after a 401 ends the call at once: Do
\* returns the re-authentication error, not the 401, and nothing follows it
\* (no request, no authentication, no sleep); after a 401 on the first
\* attempt exactly 1 request was made.
C3_ReauthFailureIsTerminal ==
  \A k \in 1..Len(log) :
    (log[k].ev = "auth" /\ log[k].res # Nil)
    => /\ k > 1 /\ log[k-1].ev = "req" /\ Is401(log[k-1].res)
       /\ Len(log) = k
       /\ Returned
       /\ ret = log[k].res
       /\ ret # log[k-1].res
       /\ k = 2 => Len(Reqs) = 1

C3_Witness ==
  /\ pc = "done"
  /\ Len(log) = 2
  /\ log[2].ev = "auth"
  /\ Is401(log[2].res)
  /\ ret = log[2].res
  /\ Len(Reqs) = 1

\* C4: a Transport.Do error that is not a StatusError, at any attempt, is
\* returned as it is and at once: no re-authentication, no further request
\* and no sleep follow; on the first attempt exactly 1 request was made.
C4_OtherErrorIsTerminal ==
  \A k \in 1..Len(log) :
    (log[k].ev = "req" /\ log[k].res # Nil /\ ~IsStatusError(log[k].res))
    => /\ Len(log) = k
       /\ pc \in {"classify", "done", "idle"}
       /\ Returned => ret = log[k].res
       /\ k = 1 => (Len(Reqs) = 1 /\ Len(Auths) = 0 /\ Len(Sleeps) = 0)

C4_Witness ==
  /\ pc = "done"
  /\ Len(Reqs) = 3
  /\ log[Len(log)].ev = "req"
  /\ log[Len(log)].res.kind = "transport"
  /\ ret = log[Len(log)].res

\* C5: three consecutive StatusErrors other than 401 make Do use exactly 3
\* requests and no authentication, leave the session's rest client and token
\* as they were, and return the StatusError of the third request.
C5_ThreeOtherStatusErrors ==
  (Len(Reqs) >= 3 /\ \A k \in 1..3 : IsOtherStatus(Reqs[k].res))
  => /\ Len(Reqs) = 3
     /\ Len(Auths) = 0
     /\ Len(log) = 5
     /\ token = Reqs[1].tok /\ cur = Reqs[1].h
     /\ Reqs[3].tok = Reqs[1].tok /\ Reqs[3].h = Reqs[1].h
     /\ pc \in {"classify", "loop", "done", "idle"}
     /\ Returned => ret = Reqs[3].res

C5_Witness ==
  /\ pc = "done"
  /\ Len(Reqs) = 3
  /\ \A k \in 1..3 : IsOtherStatus(Reqs[k].res)
  /\ ret = Reqs[3].res

\* C6: when the loop runs out (3 requests, none successful, no early
\* return), Do returns the error of the third request: not nil and not the
\* error of the first or second request.
LoopExhausted ==
  /\ Len(Reqs) = 3
  /\ \/ log[Len(log)].ev = "req" /\ IsOtherStatus(log[Len(log)].res)
     \/ log[Len(log)].ev = "install"

C6_ReturnsLastError ==
  (Returned /\ LoopExhausted)
  => /\ ret = Reqs[3].res
     /\ ret # Nil
     /\ ret # Reqs[1].res
     /\ ret # Reqs[2].res

C6_Witness ==
  /\ pc = "done"
  /\ LoopExhausted
  /\ Is401(Reqs[1].res)
  /\ IsOtherStatus(Reqs[2].res)
  /\ Is401(Reqs[3].res)
  /\ ret = Reqs[3].res

\* C7: a Transport.Do that returns no error ends the call with success: no
\* request, authentication or sleep follows it and Do returns nil.
C7_SuccessIsTerminal ==
  \A k \in 1..Len(log) :
    (log[k].ev = "req" /\ log[k].res = Nil)
    => /\ Len(log) = k
       /\ pc \in {"classify", "done", "idle"}
       /\ Returned => ret = Nil

C7_Witness ==
  /\ pc = "done"
  /\ Len(Reqs) = 3
  /\ Reqs[3].res = Nil
  /\ ret = Nil

\* C8: no sleep precedes the first request, exactly one sleep immediately
\* precedes each later request, so a returned call has slept once less than
\* it has made requests; after a 401 the order is request, authentication,
\* (installation,) sleep, request; no sleep follows the last request.
C8_OneSleepBeforeEachRetry ==
  /\ Len(log) >= 1 => log[1].ev = "req"
  /\ \A k \in 1..Len(log) :
       /\ (log[k].ev = "req" /\ k > 1) => log[k-1].ev = "sleep"
       /\ log[k].ev = "sleep" =>
            /\ k > 1 /\ log[k-1].ev \in {"req", "install"}
            /\ k < Len(log) => log[k+1].ev = "req"
            /\ k = Len(log) => pc = "request"
       /\ log[k].ev = "auth" => (k > 1 /\ Is401(log[k-1].res))
       /\ log[k].ev = "install" =>
            /\ k > 1 /\ log[k-1].ev = "auth"
            /\ k < Len(log) => log[k+1].ev = "sleep"
  /\ pc = "request" => Len(Sleeps) = Len(Reqs)
  /\ pc \notin {"request", "idle", "loop"} => Len(Sleeps) = Len(Reqs) - 1
  /\ Returned => Len(Sleeps) = Len(Reqs) - 1
  /\ Returned => log[Len(log)].ev # "sleep"
  /\ slept = defaultDelayBetweenReauth * Len(Sleeps)

C8_Witness ==
  /\ pc = "done"
  /\ Len(Reqs) = 3
  /\ Len(Sleeps) = 2
  /\ slept = 4
  /\ Len(log) >= 6
  /\ log[1].ev = "req" /\ log[2].ev = "auth" /\ log[3].ev = "install"
  /\ log[4].ev = "sleep" /\ log[5].ev = "req" /\ log[6].ev = "sleep"

\* C9 as claimed: every successful re-authentication of a call is followed
\* by the installation of the new token and then by another Transport.Do in
\* the same call.
C9_Original ==
  Returned =>
    \A k \in 1..Len(log) :
      (log[k].ev = "auth" /\ log[k].res = Nil)
      => /\ k < Len(log) /\ log[k+1].ev = "install"
         /\ \E j \in (k+2)..Len(log) : log[j].ev = "req"

\* C9 as amended: every successful re-authentication is followed by the
\* installation of the new token; when it followed the first or the second
\* request, a sleep and another Transport.Do by the new rest client follow
\* in the same call; when it followed the third request nothing follows and
\* Do returns the 401 error of the third request.
C9_ReauthThenRetryWithinBound ==
  \A k \in 1..Len(log) :
    (log[k].ev = "auth" /\ log[k].res = Nil)
    => /\ Len(log) = k <=> (pc = "install" /\ newClient.h = log[k].h)
       /\ k < Len(log) =>
            /\ log[k+1] = Event("install", log[k].h, log[k].tok, "", Nil)
            /\ log[k+1].h # log[k-1].h
       /\ (ReqsUpTo(k) < 3 /\ k + 2 <= Len(log)) => log[k+2].ev = "sleep"
       /\ (ReqsUpTo(k) < 3 /\ k + 3 <= Len(log)) =>
            /\ log[k+3].ev = "req"
            /\ log[k+3].h = log[k].h /\ log[k+3].tok = log[k].tok
       /\ (ReqsUpTo(k) < 3 /\ Returned) => k + 3 <= Len(log)
       /\ ReqsUpTo(k) = 3 =>
            /\ Len(log) <= k + 1
            /\ Returned => (ret = log[k-1].res /\ Is401(ret)
                            /\ token = log[k].tok /\ cur = log[k].h)

C9_Witness ==
  /\ pc = "done"
  /\ Len(Auths) = 2
  /\ Len(Reqs) = 3
  /\ IsOtherStatus(Reqs[1].res)
  /\ Is401(Reqs[2].res) /\ Is401(Reqs[3].res)
  /\ log[Len(log)].ev = "install"
  /\ token = log[Len(log)].tok
  /\ token # Reqs[3].tok

\* C10: the sleep between attempts ignores cancellation: from the sleep the
\* call can only go on to the next request, having slept the whole delay,
\* also when the context is cancelled; every Transport.Do gets the context
\* the caller passed; and a call returns the context's error only as the
\* result of a Transport.Do (of the request or of the authentication).
C10_SleepIgnoresCancel ==
  /\ [][pc = "sleep" =>
          /\ pc' \in {"sleep", "request"}
          /\ ret' = ret
          /\ pc' = "request" =>
               /\ slept' = slept + defaultDelayBetweenReauth
               /\ cancelled' = cancelled]_vars
  /\ [][(pc = "request" /\ pc' # "request") =>
          /\ Len(log') = Len(log) + 1
          /\ log'[Len(log')].ev = "req"
          /\ log'[Len(log')].ctx = ctx]_vars
  /\ [](\A k \in 1..Len(log) :
          log[k].ev \in {"req", "auth"} => log[k].ctx = ctx)
  /\ []((Returned /\ ret.kind = "ctx") =>
          /\ log[Len(log)].ev \in {"req", "auth"}
          /\ log[Len(log)].res = ret)

C10_Witness ==
  /\ cancelAt = "sleep"
  /\ cancelled
  /\ pc = "done"
  /\ Len(Reqs) = 2
  /\ Reqs[2].ctx = ctx
  /\ ret = CtxErr(Len(log))

\* ------------------------------------------------ claims on the construction
\* the constructor has returned and no Do call has begun since
JustConstructed == calls = 1 /\ pc \in {"idle", "failed"}
\* the last authentication of the running Do call, as an index of log
LastAuth == CHOOSE k \in 1..Len(log) :
              /\ log[k].ev = "auth"
              /\ \A j \in (k+1)..Len(log) : log[j].ev # "auth"
EmptyTokenAnswer == lastAns.err = Nil /\ lastAns.AccessToken = ""

\* C13: NewWithCreds called with an empty AppId or an empty AppSecret, with
\* any Type, returns an error and no client and makes no network call.
C13_MissingFieldNoNetwork ==
  (JustConstructed /\ input.via = "NewWithCreds"
     /\ (input.creds.AppId = "" \/ input.creds.AppSecret = ""))
  => /\ pc = "failed"
     /\ ctorErr # Nil
     /\ cur = 0 /\ token = "" /\ creds = NoCreds
     /\ netCalls = 0 /\ nHandles = 0
     /\ lastSent = NoCreds /\ lastAns = NoAns

C13_Witness ==
  /\ pc = "failed"
  /\ input.via = "NewWithCreds"
  /\ input.creds = [Type |-> "custom", AppId |-> "id", AppSecret |-> ""]
  /\ ctorErr = ErrValidation
  /\ netCalls = 0

\* C14: New fails with ErrInvalidInput and without a network call when
\* APP_ID or APP_SECRET is unset or empty; it makes the authentication
\* request only when both are non-empty, and then with these two values.
C14_NewNeedsBothVariables ==
  (JustConstructed /\ input.via = "New")
  => /\ (input.env.APP_ID \in {Unset, ""}
           \/ input.env.APP_SECRET \in {Unset, ""})
        => /\ pc = "failed"
           /\ ctorErr = ErrInvalidInput
           /\ netCalls = 0 /\ nHandles = 0 /\ lastSent = NoCreds
           /\ cur = 0
     /\ netCalls > 0
        => /\ input.env.APP_ID \notin {Unset, ""}
           /\ input.env.APP_SECRET \notin {Unset, ""}
           /\ netCalls = 1
           /\ lastSent.AppId = input.env.APP_ID
           /\ lastSent.AppSecret = input.env.APP_SECRET
     /\ (input.env.APP_ID \notin {Unset, ""}
           /\ input.env.APP_SECRET \notin {Unset, ""})
        => netCalls = 1

C14_Witness ==
  /\ pc = "failed"
  /\ input.via = "New"
  /\ input.env = [APP_ID |-> "envid", APP_SECRET |-> ""]
  /\ ctorErr = ErrInvalidInput
  /\ netCalls = 0

\* C15: when the authentication endpoint answers without error but with an
\* empty accessToken, the constructor returns ErrAuthFailure and no client
\* and sets no token; in a re-authentication of Do the call ends there with
\* ErrAuthFailure and the client keeps its rest client and token.
C15_EmptyTokenIsFailure ==
  /\ (EmptyTokenAnswer /\ JustConstructed /\ netCalls = 1)
     => /\ pc = "failed"
        /\ ctorErr = ErrAuthFailure
        /\ cur = 0 /\ token = "" /\ expires = NoExpiry
  /\ (EmptyTokenAnswer /\ Auths # <<>>)
     => /\ LastAuth = Len(log)
        /\ log[Len(log)].res = ErrAuthFailure
        /\ pc \in {"done", "idle"}
        /\ ret = ErrAuthFailure
        /\ cur = log[Len(log) - 1].h
        /\ token = log[Len(log) - 1].tok
        /\ token # ""

C15_Witness ==
  /\ EmptyTokenAnswer
  /\ pc = "done"
  /\ Len(Auths) = 2
  /\ Auths[1].res = Nil
  /\ ret = ErrAuthFailure
  /\ token = Auths[1].tok

\* C16: a constructed client always holds a non-empty token, and outside the
\* step between a re-authentication and the installation of its client the
\* token is the accessToken of the latest successful authentication.
C16_TokenIsLatestIssued ==
  cur # 0
  => /\ token # ""
     /\ pc # "install" => token = lastOk.AccessToken

C16_Witness ==
  /\ pc = "done"
  /\ Len(Auths) = 3
  /\ Auths[1].res = Nil /\ Auths[2].res = Nil /\ Auths[3].res # Nil
  /\ Auths[1].tok # Auths[2].tok
  /\ token = Auths[2].tok

\* C17: the credentials stored in the client never change once the
\* constructor has returned, and every re-authentication posts exactly them.
C17_CredsNeverChange ==
  /\ [][pc # "start" => creds' = creds]_vars
  /\ [](cur # 0 => (lastSent = creds /\ creds.Type # ""))

C17_Witness ==
  /\ pc = "done"
  /\ input.creds.Type = "custom"
  /\ Len(Auths) = 2
  /\ creds = input.creds
  /\ lastSent = creds

\* C18: NewWithCreds with valid credentials makes exactly one request to the
\* authentication endpoint; when that request fails the constructor returns
\* the error of the request itself and no client.
C18_OneRequestNoRetry ==
  (JustConstructed /\ input.via = "NewWithCreds"
     /\ input.creds.AppId # "" /\ input.creds.AppSecret # "")
  => /\ netCalls = 1 /\ nHandles = 1
     /\ lastAns.err # Nil
        => /\ pc = "failed"
           /\ ctorErr = lastAns.err
           /\ cur = 0 /\ token = ""

C18_Witness ==
  /\ pc = "failed"
  /\ input.via = "NewWithCreds"
  /\ lastAns.err.kind = "status"
  /\ ctorErr = lastAns.err
  /\ netCalls = 1

\* C20: after a successful authentication whose answer carries expiresIn = n,
\* the token's ExpiresOn is the time of the authentication plus n seconds,
\* for every n, and the token is the accessToken of the answer.
C20_ExpiryIsNowPlusSeconds ==
  (cur # 0 /\ pc # "install")
  => /\ token = lastOk.AccessToken
     /\ expires.at = lastOk.at
     /\ SignExtend(expires.add, 2 * Width)
          = TimesSecond(SignExtend(lastOk.ExpiresIn, 2 * Width))

\* ------------------------------------------------- claims on concurrent calls

\* C11: the installation of a new rest client and token excludes the
\* requests in flight: no step replaces c.Client or its token while another
\* Do call has read c.Client and is sending its request with it.
C11_InstallExcludesReaders ==
  [][pcB = "loaded" => (cur' = cur /\ token' = token)]_vars

\* ------------------------------------------- claims on the endpoint operations

\* C12: no error of Do is swallowed: an endpoint operation that has called
\* c.Client.Do returns a non-nil error whenever Do returned one, and returns
\* a nil error only when Do returned nil.
C12_NoErrorSwallowed ==
  (pc = "ready" /\ opRet.doCalls = 1)
  => /\ ret # Nil => opRet.err # Nil
     /\ opRet.err = Nil => ret = Nil

\* the call of the operation op has an argument that fails a check
\* (op' in a step is the call the step begins)
InvalidCall ==
  \/ op.conversationId = ""
  \/ op.name \in BookmarkIdOps /\ op.bookmarkId = ""
  \/ op.name \in RequestOps /\ ~op.requestOk

\* C19: an operation called with an empty conversationId, with an empty
\* bookmarkId (the four operations that take one) or with a request that
\* fails its validation (CreateBookmark, UpdateBookmark) returns an error
\* and never calls c.Client.Do.
C19_ValidationBeforeDo ==
  [][(pc = "ready" /\ calls' = calls + 1 /\ InvalidCall')
     => /\ pc' = "ready"
        /\ opRet'.err # Nil
        /\ ~opRet'.result
        /\ opRet'.doCalls = 0
        /\ log' = log
        /\ netCalls' = netCalls]_vars

C19_Witness ==
  /\ op.name = "DeleteBookmark"
  /\ op.conversationId = "conv"
  /\ op.bookmarkId = ""
  /\ pc = "ready"
  /\ opRet.err = ErrApiInvalidInput
  /\ log = <<>>

\* --------------------------------------------- claims on Do, continued

\* the last thing Do did was a re-authentication that failed
FailedReauthLast ==
  /\ Len(log) > 1
  /\ log[Len(log)].ev = "auth"
  /\ log[Len(log)].res # Nil

\* C21: a failed re-authentication inside Do leaves the session unchanged:
\* the step that fails, the return of Do and the next call of Do keep the
\* client's transport handle, its token and its expiry, and the next call
\* begins with the token of the request that was answered 401.
C21_FailedReauthKeepsSession ==
  [][/\ ((pc = "reauth" /\ pc' = "done") \/ FailedReauthLast)
        => (cur' = cur /\ token' = token /\ expires' = expires)
     /\ (FailedReauthLast /\ pc = "idle" /\ pc' = "loop")
        => /\ token' = log[Len(log) - 1].tok
           /\ cur' = log[Len(log) - 1].h]_vars

C21_Witness ==
  /\ FailedReauthLast
  /\ Len(log) = 6
  /\ log[3].ev = "install"
  /\ pc = "idle"
  /\ token = log[3].tok
  /\ token = log[5].tok
  /\ cur = log[5].h
  /\ ret = log[6].res

\* C22: within one call of Do an authentication happens only right after a
\* request of that call was answered 401, and one happens after every such
\* answer, the third included; so there are never more authentications than
\* requests, and at most 3; and when the third request is answered 401 and
\* the re-authentication succeeds, the new client and token are installed
\* although Do returns the 401.
C22_AuthOnlyAfter401 ==
  /\ \A k \in 1..Len(log) :
       log[k].ev = "auth"
       => k > 1 /\ log[k-1].ev = "req" /\ Is401(log[k-1].res)
  /\ \A k \in 1..Len(log) :
       (log[k].ev = "req" /\ Is401(log[k].res))
       => IF k = Len(log) THEN pc \in {"classify", "reauth"}
          ELSE log[k+1].ev = "auth"
  /\ Len(Auths) <= Len(Reqs)
  /\ Len(Reqs) <= defaultAttemptsToReauth
  /\ Len(Auths) <= 3
  /\ \A k \in 1..Len(log) :
       (/\ log[k].ev = "req"
        /\ ReqsUpTo(k) = 3
        /\ Is401(log[k].res)
        /\ Returned
        /\ log[k+1].res = Nil)
       => /\ Len(log) = k + 2
          /\ log[k+2].ev = "install"
          /\ token = log[k+1].tok
          /\ cur = log[k+1].h
          /\ ret = log[k].res

C22_Witness ==
  /\ pc = "done"
  /\ Len(Reqs) = 3
  /\ Len(Auths) = 3
  /\ Is401(ret)
  /\ log[Len(log)].ev = "install"
  /\ token = log[Len(log)].tok
  /\ token # log[1].tok

\* C23: Do always terminates: when every Transport.Do call and every
\* authentication call returns, a call of Do that has begun returns, after
\* at most 3 requests, at most 3 authentications and at most 2 delays,
\* whatever those calls answer.
C23_DoTerminates ==
  /\ [](Len(Reqs) <= 3 /\ Len(Auths) <= 3 /\ Len(Sleeps) <= 2)
  /\ (pc \notin {"idle", "done"}) ~> (pc = "done")

C23_Witness ==
  /\ pc = "done"
  /\ Len(Reqs) = 3
  /\ Len(Auths) = 3
  /\ Len(Sleeps) = 2

\* ------------------------------------------------------ claim on GetSummaryUI

\* the path of a uri that parses, and what follows its last '.'
UriPath(uri) == UrlParse(uri).Path
UriExtension(uri) ==
  SubSeq(UriPath(uri), LastIndex(UriPath(uri), ".") + 2, Len(UriPath(uri)))
AudioTypes == {AudioTypeMP3, AudioTypeMpeg, AudioTypeWav}
\* the operation op has begun its request (it calls, or has called, Do)
IssuedBy(name) ==
  /\ op.target = name
  /\ pc # "ready" \/ opRet.doCalls = 1

\* C24: GetSummaryUI chooses exactly one summary request by the uri: an
\* empty uri issues the text request; a uri whose path has no '.' returns
\* the invalid-extension error without a network call; an extension that is
\* an audio type (mp3, mpeg, wav) issues the audio request; any other
\* extension issues the video request.
C24_SummaryChosenByUri ==
  (/\ op.name = "GetSummaryUI"
   /\ op.conversationId # ""
   /\ UrlParse(op.uri).ok)
  => IF op.uri = <<>> THEN IssuedBy("GetTextSummaryUI")
     ELSE IF LastIndex(UriPath(op.uri), ".") < 0
       THEN /\ pc = "ready"
            /\ opRet.err = ErrInvalidURIExtension
            /\ opRet.doCalls = 0
            /\ log = <<>>
     ELSE IF UriExtension(op.uri) \in AudioTypes
       THEN IssuedBy("GetAudioSummaryUI")
     ELSE IssuedBy("GetVideoSummaryUI")

====
